---------------------------- MODULE Spec2Model ----------------------------
(***************************************************************************)
(* Model of the simulation engine of src/pacman4k.py: the main loop of     *)
(* main(), PacMan.update, Ghost.update and its three movement strategies,  *)
(* and get_level_config.  Audio and drawing are left out (they read the    *)
(* state, they never write it).                                            *)
(*                                                                         *)
(* Speeds and move accumulators are decimal fractions in the source; they  *)
(* are kept here as integers in thousandths of a cell (0.15 is 150, the    *)
(* threshold 1.0 is 1000).  Positions are integers in the source: they     *)
(* start as integers and only integers (dx, dy) are ever added.            *)
(***************************************************************************)
EXTENDS Integers, Sequences, FiniteSets, TLC

(***************************************************************************)
(* Constants of the program                                                *)
(***************************************************************************)

\* class GameState(Enum)
INTRO == 0
GHOST_ROLL == 1
READY == 2
PLAYING == 3
DYING == 4
GAME_OVER == 5
LEVEL_COMPLETE == 6
KILL_SCREEN == 7

\* cell codes of MAZE
EMPTY == 0
WALL == 1
PELLET == 2
POWER_PELLET == 3
DOOR == 4
FRUIT_SPOT == 5

\* one cell, the unit of the accumulators (1.0 in the source)
ONE == 1000

MAZE ==
  << <<1,1,1,1,1,1,1,1,1,1,1,1,1,1,1,1,1,1,1,1,1,1,1,1,1,1,1,1>>,
     <<1,2,2,2,2,2,2,2,2,2,2,2,2,1,1,2,2,2,2,2,2,2,2,2,2,2,2,1>>,
     <<1,3,1,1,1,1,2,1,1,1,1,1,2,1,1,2,1,1,1,1,1,2,1,1,1,1,3,1>>,
     <<1,2,1,1,1,1,2,1,1,1,1,1,2,1,1,2,1,1,1,1,1,2,1,1,1,1,2,1>>,
     <<1,2,2,2,2,2,2,2,2,2,2,2,2,2,2,2,2,2,2,2,2,2,2,2,2,2,2,1>>,
     <<1,2,1,1,1,1,2,1,1,2,1,1,1,1,1,1,1,1,2,1,1,2,1,1,1,1,2,1>>,
     <<1,2,2,2,2,2,2,1,1,2,2,2,2,1,1,2,2,2,2,1,1,2,2,2,2,2,2,1>>,
     <<1,1,1,1,1,1,2,1,1,1,1,1,0,1,1,0,1,1,1,1,1,2,1,1,1,1,1,1>>,
     <<0,0,0,0,0,1,2,1,1,1,1,1,0,1,1,0,1,1,1,1,1,2,1,0,0,0,0,0>>,
     <<0,0,0,0,0,1,2,1,1,0,0,0,0,0,0,0,0,0,0,1,1,2,1,0,0,0,0,0>>,
     <<0,0,0,0,0,1,2,1,1,0,1,1,1,4,4,1,1,1,0,1,1,2,1,0,0,0,0,0>>,
     <<1,1,1,1,1,1,2,1,1,0,1,0,0,0,0,0,0,1,0,1,1,2,1,1,1,1,1,1>>,
     <<0,0,0,0,0,0,2,0,0,0,1,0,0,0,0,0,0,1,0,0,0,2,0,0,0,0,0,0>>,
     <<1,1,1,1,1,1,2,1,1,0,1,0,0,0,0,0,0,1,0,1,1,2,1,1,1,1,1,1>>,
     <<0,0,0,0,0,1,2,1,1,0,1,1,1,1,1,1,1,1,0,1,1,2,1,0,0,0,0,0>>,
     <<0,0,0,0,0,1,2,1,1,0,0,0,0,5,5,0,0,0,0,1,1,2,1,0,0,0,0,0>>,
     <<0,0,0,0,0,1,2,1,1,0,1,1,1,1,1,1,1,1,0,1,1,2,1,0,0,0,0,0>>,
     <<1,1,1,1,1,1,2,1,1,0,1,1,1,1,1,1,1,1,0,1,1,2,1,1,1,1,1,1>>,
     <<1,2,2,2,2,2,2,2,2,2,2,2,2,1,1,2,2,2,2,2,2,2,2,2,2,2,2,1>>,
     <<1,2,1,1,1,1,2,1,1,1,1,1,2,1,1,2,1,1,1,1,1,2,1,1,1,1,2,1>>,
     <<1,3,2,2,1,1,2,2,2,2,2,2,2,0,0,2,2,2,2,2,2,2,1,1,2,2,3,1>>,
     <<1,1,1,2,1,1,2,1,1,2,1,1,1,1,1,1,1,1,2,1,1,2,1,1,2,1,1,1>>,
     <<1,2,2,2,2,2,2,1,1,2,2,2,2,1,1,2,2,2,2,1,1,2,2,2,2,2,2,1>>,
     <<1,2,1,1,1,1,1,1,1,1,1,1,2,1,1,2,1,1,1,1,1,1,1,1,1,1,2,1>>,
     <<1,2,2,2,2,2,2,2,2,2,2,2,2,2,2,2,2,2,2,2,2,2,2,2,2,2,2,1>>,
     <<1,1,1,1,1,1,1,1,1,1,1,1,1,1,1,1,1,1,1,1,1,1,1,1,1,1,1,1>> >>

\* len(maze) and len(maze[0])
Rows == Len(MAZE)
Cols == Len(MAZE[1])

\* maze = [row[:] for row in MAZE], indexed maze[y][x] from 0 as in the source
MazeCopy == [y \in 0..(Rows - 1) |-> [x \in 0..(Cols - 1) |-> MAZE[y + 1][x + 1]]]

\* FRUITS: the reward of each of the thirteen entries
FRUITS == <<100, 300, 500, 500, 700, 700, 1000, 1000, 2000, 2000, 3000, 3000, 5000>>

\* configs[1..21] of get_level_config, in thousandths of a cell per tick
PacSpeeds ==
  <<150, 160, 160, 170, 170, 180, 180, 190, 190, 200, 200,
    210, 210, 220, 220, 230, 230, 240, 240, 250, 250>>
GhostSpeeds ==
  <<120, 130, 140, 150, 160, 170, 180, 190, 200, 210, 220,
    230, 240, 250, 260, 270, 280, 290, 300, 310, 320>>
FrightenedTimes ==
  <<360, 300, 240, 180, 150, 120, 120, 90, 60, 60, 50,
    40, 40, 30, 30, 20, 20, 10, 10, 5, 0>>

\* FRUITS[i] with Python's indexing: i in -13..12; anything else raises IndexError,
\* written -1 here (no level of 1..256 reaches it)
FruitAt(i) ==
  IF i >= 0 /\ i < Len(FRUITS) THEN FRUITS[i + 1]
  ELSE IF i < 0 /\ i >= -Len(FRUITS) THEN FRUITS[Len(FRUITS) + i + 1]
  ELSE -1

\* variant: the difficulty is capped at level 20
get_level_config_cap_20(lv) ==
  IF lv = 256
  THEN [pac_speed |-> 50, ghost_speed |-> 300, frightened_time |-> 10, fruit |-> 0]
  ELSE LET l == IF lv < 20 THEN lv ELSE 20
           k == IF l \in 1..21 THEN l ELSE 21
       IN [pac_speed |-> PacSpeeds[k],
           ghost_speed |-> GhostSpeeds[k],
           frightened_time |-> FrightenedTimes[k],
           fruit |-> IF l <= 13 THEN FruitAt(l - 1) ELSE FruitAt(-1)]

get_level_config(lv) ==
  IF lv = 256
  THEN [pac_speed |-> 50, ghost_speed |-> 300, frightened_time |-> 10, fruit |-> 0]
  ELSE LET l == IF lv < 21 THEN lv ELSE 21
           k == IF l \in 1..21 THEN l ELSE 21
       IN [pac_speed |-> PacSpeeds[k],
           ghost_speed |-> GhostSpeeds[k],
           frightened_time |-> FrightenedTimes[k],
           fruit |-> IF l <= 13 THEN FruitAt(l - 1) ELSE FruitAt(-1)]

(***************************************************************************)
(* Movement: PacMan.update, Ghost.update and the three strategies          *)
(***************************************************************************)

\* directions = [(0, -1), (0, 1), (-1, 0), (1, 0)]: up, down, left, right
DIRECTIONS == << <<0, -1>>, <<0, 1>>, <<-1, 0>>, <<1, 0>> >>

\* ghosts = [Ghost(13, 11, .. "chaser"), Ghost(14, 11, .. "ambusher"), ...]
PERSONALITY == <<"chaser", "ambusher", "fickle", "pokey">>
START == << <<13, 11>>, <<14, 11>>, <<13, 12>>, <<14, 12>> >>
Ghosts == 1..4

Abs(n) == IF n < 0 THEN -n ELSE n

\* variant: only the edge of the grid stops a move
can_move_through_walls(x, y, mz) ==
  IF x < 0 \/ x >= Cols \/ y < 0 \/ y >= Rows THEN FALSE
  ELSE TRUE

\* Ghost.can_move and PacMan.can_move (the same test)
can_move(x, y, mz) ==
  IF x < 0 \/ x >= Cols \/ y < 0 \/ y >= Rows THEN FALSE
  ELSE mz[y][x] # WALL

\* The first element of the non-empty sequence dirs that minimises D, as the
\* loops "if dist < min_dist: min_dist = dist; best_dir = (dx, dy)" pick it
FirstMin(dirs, D(_)) ==
  LET m == CHOOSE v \in {D(dirs[i]) : i \in 1..Len(dirs)} :
             \A i \in 1..Len(dirs) : v <= D(dirs[i])
      k == CHOOSE i \in 1..Len(dirs) :
             D(dirs[i]) = m /\ \A j \in 1..(i - 1) : D(dirs[j]) # m
  IN dirs[k]

\* PacMan(): the player at construction
PacManInit ==
  [x |-> 14, y |-> 20, dx |-> 0, dy |-> 0, next_dx |-> 0, next_dy |-> 0,
   move_accumulator |-> 0]

\* One pass of the body of "while self.move_accumulator >= 1.0" in PacMan.update
PacStep(p, mz) ==
  LET a == [p EXCEPT !.move_accumulator = @ - ONE]
      t == IF can_move(a.x + a.next_dx, a.y + a.next_dy, mz)
           THEN [a EXCEPT !.dx = a.next_dx, !.dy = a.next_dy]
           ELSE a
  IN IF can_move(t.x + t.dx, t.y + t.dy, mz)
     THEN [t EXCEPT !.x = @ + t.dx, !.y = @ + t.dy]
     ELSE t

RECURSIVE PacLoop(_, _)
PacLoop(p, mz) ==
  IF p.move_accumulator >= ONE THEN PacLoop(PacStep(p, mz), mz) ELSE p

\* PacMan.update (the mouth animation is drawing state)
PacUpdate(p, mz, cfg) ==
  PacLoop([p EXCEPT !.move_accumulator = @ + cfg.pac_speed], mz)

\* Ghost(...) at construction, and Ghost.reset
GhostInit(i) ==
  [x |-> START[i][1], y |-> START[i][2], dx |-> 0, dy |-> 0,
   move_accumulator |-> 0, frightened |-> FALSE, eaten |-> FALSE]

GhostReset(i) ==
  [x |-> START[i][1], y |-> START[i][2], dx |-> 0, dy |-> -1,
   move_accumulator |-> 0, frightened |-> FALSE, eaten |-> FALSE]

\* Ghost.return_to_base: greedy on the Manhattan distance to (14, 11)
return_to_base(g, mz) ==
  LET ok == SelectSeq(DIRECTIONS, LAMBDA d : can_move(g.x + d[1], g.y + d[2], mz))
      Dist(d) == Abs(g.x + d[1] - 14) + Abs(g.y + d[2] - 11)
      best == IF Len(ok) = 0 THEN <<0, 0>> ELSE FirstMin(ok, Dist)
  IN [g EXCEPT !.dx = best[1], !.dy = best[2]]

\* Ghost.frightened_move: every outcome of random.shuffle; the first direction of
\* the shuffled list that can be moved in is any non-reverse direction that can
\* be, and with none the direction is kept
frightened_move(g, mz) ==
  LET opposite == <<-g.dx, -g.dy>>
      ok == {d \in {DIRECTIONS[i] : i \in 1..4} :
               d # opposite /\ can_move(g.x + d[1], g.y + d[2], mz)}
  IN IF ok = {} THEN {g}
     ELSE {[g EXCEPT !.dx = d[1], !.dy = d[2]] : d \in ok}

\* valid_dirs as it would be without "(dx, dy) != opposite"
valid_dirs_reversing(g, mz) ==
  SelectSeq(DIRECTIONS, LAMBDA d : can_move(g.x + d[1], g.y + d[2], mz))

\* valid_dirs of Ghost.ai_move
valid_dirs(g, mz) ==
  LET opposite == <<-g.dx, -g.dy>>
      v == SelectSeq(DIRECTIONS,
             LAMBDA d : d # opposite /\ can_move(g.x + d[1], g.y + d[2], mz))
  IN IF Len(v) = 0 THEN <<opposite>> ELSE v

\* the target points of Ghost.ai_move, by personality
chaser_target(g, pac) == <<pac.x, pac.y>>

ambusher_target(g, pac) == <<pac.x + pac.dx * 4, pac.y + pac.dy * 4>>

fickle_target(g, pac) ==
  LET blinky_x == pac.x
      blinky_y == pac.y
      pivot_x == pac.x + pac.dx * 2
      pivot_y == pac.y + pac.dy * 2
  IN <<pivot_x + (pivot_x - blinky_x), pivot_y + (pivot_y - blinky_y)>>

\* the test of pokey as it would be with ">= 8"
pokey_chases_from_8(g, pac) ==
  (g.x - pac.x) * (g.x - pac.x) + (g.y - pac.y) * (g.y - pac.y) >= 8 * 8

\* math.sqrt(d2) > 8 is d2 > 64 for the integer d2 (sqrt(64) is exactly 8.0)
pokey_chases(g, pac) ==
  (g.x - pac.x) * (g.x - pac.x) + (g.y - pac.y) * (g.y - pac.y) > 8 * 8

pokey_target(g, pac) ==
  IF pokey_chases(g, pac) THEN <<pac.x, pac.y>> ELSE <<0, 25>>

ai_target(i, g, pac) ==
  CASE PERSONALITY[i] = "chaser" -> chaser_target(g, pac)
    [] PERSONALITY[i] = "ambusher" -> ambusher_target(g, pac)
    [] PERSONALITY[i] = "fickle" -> fickle_target(g, pac)
    [] OTHER -> pokey_target(g, pac)

\* Ghost.ai_move as it would be with "if dist <= min_dist": the last of the
\* nearest directions wins
ai_move_last_wins(i, g, mz, pac) ==
  LET t == ai_target(i, g, pac)
      v == valid_dirs(g, mz)
      Dist(d) == (g.x + d[1] - t[1]) * (g.x + d[1] - t[1])
                 + (g.y + d[2] - t[2]) * (g.y + d[2] - t[2])
      k == CHOOSE n \in 1..Len(v) :
             /\ \A j \in 1..Len(v) : Dist(v[n]) <= Dist(v[j])
             /\ \A j \in (n + 1)..Len(v) : Dist(v[j]) # Dist(v[n])
  IN [g EXCEPT !.dx = v[k][1], !.dy = v[k][2]]

\* Ghost.ai_move
ai_move(i, g, mz, pac) ==
  LET t == ai_target(i, g, pac)
      Dist(d) == (g.x + d[1] - t[1]) * (g.x + d[1] - t[1])
                 + (g.y + d[2] - t[2]) * (g.y + d[2] - t[2])
      best == FirstMin(valid_dirs(g, mz), Dist)
  IN [g EXCEPT !.dx = best[1], !.dy = best[2]]

\* "Execute move" at the end of the loop body of Ghost.update
GhostExecute(g, mz) ==
  IF can_move(g.x + g.dx, g.y + g.dy, mz)
  THEN [g EXCEPT !.x = @ + g.dx, !.y = @ + g.dy]
  ELSE g

\* One pass of the body of "while self.move_accumulator >= 1.0" in Ghost.update:
\* the set of outcomes (one, unless the ghost is frightened)
GhostStep(i, g, mz, pac) ==
  LET a == [g EXCEPT !.move_accumulator = @ - ONE]
      turned ==
        IF a.eaten
        THEN IF Abs(a.x - 14) < 1 /\ Abs(a.y - 11) < 1
             THEN {[a EXCEPT !.eaten = FALSE, !.frightened = FALSE]}
             ELSE {return_to_base(a, mz)}
        ELSE IF a.frightened THEN frightened_move(a, mz)
        ELSE {ai_move(i, a, mz, pac)}
  IN {GhostExecute(t, mz) : t \in turned}

RECURSIVE GhostLoop(_, _, _, _)
GhostLoop(i, g, mz, pac) ==
  IF g.move_accumulator >= ONE
  THEN UNION {GhostLoop(i, h, mz, pac) : h \in GhostStep(i, g, mz, pac)}
  ELSE {g}

\* self.speed as Ghost.update sets it
GhostSpeed(g, cfg) ==
  IF g.eaten THEN 500
  ELSE IF g.frightened THEN cfg.ghost_speed \div 2
  ELSE cfg.ghost_speed

\* The record of last_step for the ghost g as a frame begins: whether
\* Ghost.update will take a grid step (one at most: the accumulator is below 1.0
\* between frames and every speed is), and in which mode
StepOf(g, cfg) ==
  IF g.move_accumulator + GhostSpeed(g, cfg) >= ONE
  THEN [mode |-> IF g.eaten THEN "eaten" ELSE IF g.frightened THEN "frightened"
                 ELSE "pursuit",
        x |-> g.x, y |-> g.y, dx |-> g.dx, dy |-> g.dy]
  ELSE [mode |-> "none", x |-> g.x, y |-> g.y, dx |-> g.dx, dy |-> g.dy]

NoSteps == [i \in Ghosts |-> [mode |-> "none", x |-> 0, y |-> 0, dx |-> 0, dy |-> 0]]

\* Ghost.update: the set of outcomes
GhostUpdate(i, g, mz, pac, cfg) ==
  GhostLoop(i, [g EXCEPT !.move_accumulator = @ + GhostSpeed(g, cfg)], mz, pac)

(***************************************************************************)
(* The accumulators as the interpreter holds them.  speed and               *)
(* move_accumulator are Python floats (binary64), and "+=" rounds its sum   *)
(* to the nearest float, ties to even.  The game above keeps them exact, in *)
(* thousandths; here a float below 2 is the whole number of units of 2^-57  *)
(* it is worth (every float from 2^-5 up to 2 is such a number), written    *)
(* <<hi, lo>> for hi * 2^29 + lo, so that 1.0 is <<2^28, 0>>.               *)
(***************************************************************************)

\* the spacing of the floats in the binade of hi * 2^-28, in units of 2^-57:
\* 2^-52 in [1, 2), 2^-53 in [1/2, 1), ... 2^-57 below 1/16
Ulp(hi) ==
  IF hi >= 2^28 THEN 2^5
  ELSE IF hi >= 2^27 THEN 2^4
  ELSE IF hi >= 2^26 THEN 2^3
  ELSE IF hi >= 2^25 THEN 2^2
  ELSE IF hi >= 2^24 THEN 2
  ELSE 1

\* the float nearest to hi * 2^29 + lo + num / den units, ties to even
FRound(hi, lo, num, den) ==
  LET g == Ulp(hi)
      r == lo % g
      up == \/ 2 * (r * den + num) > g * den
            \/ 2 * (r * den + num) = g * den /\ (lo \div g) % 2 = 1
      lo1 == IF up THEN lo - r + g ELSE lo - r
  IN <<hi + lo1 \div 2^29, lo1 % 2^29>>

\* the next k binary digits of rem / ONE after those in acc, and what is left
RECURSIVE FDigits(_, _, _)
FDigits(acc, rem, k) ==
  IF k = 0 THEN <<acc, rem>>
  ELSE FDigits(2 * acc + (IF 2 * rem >= ONE THEN 1 ELSE 0), (2 * rem) % ONE, k - 1)

\* the float a literal of th thousandths denotes (0.18 for 180): the nearest
\* float to the decimal value
Binary64(th) ==
  LET h == FDigits(0, th, 28)
      l == FDigits(0, h[2], 29)
  IN FRound(h[1], l[1], l[2], ONE)

\* a + b of two floats below 1
FAdd(a, b) ==
  LET lo0 == a[2] + b[2]
  IN FRound(a[1] + b[1] + lo0 \div 2^29, lo0 % 2^29, 0, 1)

\* "move_accumulator >= 1.0" and "move_accumulator -= 1.0" (exact below 2)
FAtLeastOne(a) == a[1] >= 2^28
FMinusOne(a) == <<a[1] - 2^28, a[2]>>

\* "while self.move_accumulator >= 1.0": each pass is one grid step, taken
\* or blocked by a wall
RECURSIVE MeterLoop(_)
MeterLoop(m) ==
  IF FAtLeastOne(m.move_accumulator)
  THEN MeterLoop([m EXCEPT !.move_accumulator = FMinusOne(@), !.steps = @ + 1])
  ELSE m

\* one update of an entity at the constant speed m.speed (in thousandths)
MeterUpdate(m) ==
  MeterLoop([m EXCEPT !.move_accumulator = FAdd(@, Binary64(m.speed)),
                      !.ticks = @ + 1])

\* the speeds the level configurations give the player and the ghosts
ConfigSpeeds ==
  {get_level_config(lv).pac_speed : lv \in 1..256}
    \cup {get_level_config(lv).ghost_speed : lv \in 1..256}

(***************************************************************************)
(* The state of main()                                                     *)
(***************************************************************************)

VARIABLES
  state,                \* the GameState
  score, high_score, lives, level, dots_eaten,
  power_timer, intro_timer, death_timer, level_complete_timer,
  ghost_score, fruit_timer, fruit_active,
  maze,                 \* maze[y][x]
  pacman,               \* the PacMan object
  ghosts,               \* the four Ghost objects, 1..4 in list order
  running,              \* the loop flag
  chain,                \* history: the awards for captured ghosts since the
                        \* last power pellet was consumed, in order
  captured,             \* history: the ghosts captured since then
  last_step,            \* history: for each ghost, the grid step it took in the
                        \* frame before (its mode, cell and direction before it)
  fruit_log,            \* history: the values of dots_eaten at which the fruit
                        \* was put out in this level, and the fruits scored in it
  play_ticks,           \* history: PLAYING frames so far (bounds a run)
  meter,                \* one move_accumulator in binary64, with the count of
                        \* its updates and of its grid steps
  asked                 \* one call of get_level_config: its argument and what
                        \* it returned

vars ==
  <<state, score, high_score, lives, level, dots_eaten, power_timer, intro_timer,
    death_timer, level_complete_timer, ghost_score, fruit_timer, fruit_active,
    maze, pacman, ghosts, running, chain, captured, fruit_log, last_step, play_ticks,
    meter, asked>>

(***************************************************************************)
(* Bounds of the model                                                     *)
(***************************************************************************)

\* PLAYING frames in one run
MaxPlayTicks == 20
\* frames spent waiting in GHOST_ROLL (its timer grows without limit)
MaxRollTicks == 3

\* updates of the metered accumulator in a run
MaxAccTicks == 60

\* the arguments get_level_config is called with run from -BelowAsked to MaxAsked
BelowAsked == 20
MaxAsked == 300

(***************************************************************************)
(* Events: the for loop over pygame.event.get()                            *)
(***************************************************************************)

EVENTS == {"QUIT", "K_ESCAPE", "K_SPACE", "K_LEFT", "K_RIGHT", "K_UP", "K_DOWN", "K_OTHER"}

\* What the event loop writes: running, state, intro_timer and the queued direction
EventState ==
  [running |-> running, state |-> state, intro_timer |-> intro_timer,
   next_dx |-> pacman.next_dx, next_dy |-> pacman.next_dy]

\* variant: SPACE starts the level from any state
HandleEvent_space_anywhere(e, ev) ==
  IF ev = "QUIT" \/ ev = "K_ESCAPE" THEN [e EXCEPT !.running = FALSE]
  ELSE IF ev = "K_SPACE"
  THEN [e EXCEPT !.state = READY, !.intro_timer = 0]
  ELSE IF e.state = PLAYING
  THEN CASE ev = "K_LEFT" -> [e EXCEPT !.next_dx = -1, !.next_dy = 0]
         [] ev = "K_RIGHT" -> [e EXCEPT !.next_dx = 1, !.next_dy = 0]
         [] ev = "K_UP" -> [e EXCEPT !.next_dx = 0, !.next_dy = -1]
         [] ev = "K_DOWN" -> [e EXCEPT !.next_dx = 0, !.next_dy = 1]
         [] OTHER -> e
  ELSE e

HandleEvent(e, ev) ==
  IF ev = "QUIT" \/ ev = "K_ESCAPE" THEN [e EXCEPT !.running = FALSE]
  ELSE IF e.state = GHOST_ROLL /\ ev = "K_SPACE"
  THEN [e EXCEPT !.state = READY, !.intro_timer = 0]
  ELSE IF e.state = PLAYING
  THEN CASE ev = "K_LEFT" -> [e EXCEPT !.next_dx = -1, !.next_dy = 0]
         [] ev = "K_RIGHT" -> [e EXCEPT !.next_dx = 1, !.next_dy = 0]
         [] ev = "K_UP" -> [e EXCEPT !.next_dx = 0, !.next_dy = -1]
         [] ev = "K_DOWN" -> [e EXCEPT !.next_dx = 0, !.next_dy = 1]
         [] OTHER -> e
  ELSE e

\* pygame.event.get() returns any finite list of events, handled in order: the
\* states the event loop can leave are those some list leads to from e
RECURSIVE EventClosure(_)
EventClosure(S) ==
  LET T == S \cup {HandleEvent(e, ev) : e \in S, ev \in EVENTS}
  IN IF T = S THEN S ELSE EventClosure(T)

AfterEvents == EventClosure({EventState})

(***************************************************************************)
(* The PLAYING branch of the state update, in the order of the source.     *)
(* Each part maps a record of the session's variables to the next one.     *)
(***************************************************************************)

\* no fruit put out and none scored yet in the level
NoFruit == [out |-> <<>>, scored |-> 0]

Session ==
  [state |-> state, score |-> score, high_score |-> high_score, lives |-> lives,
   dots_eaten |-> dots_eaten, power_timer |-> power_timer,
   death_timer |-> death_timer, level_complete_timer |-> level_complete_timer,
   ghost_score |-> ghost_score, fruit_timer |-> fruit_timer,
   fruit_active |-> fruit_active, maze |-> maze, ghosts |-> ghosts, chain |-> chain,
   captured |-> captured,
   fruit_log |-> fruit_log]

\* "Power pellet timer"
PowerTimerStep(s) ==
  IF s.power_timer > 0
  THEN IF s.power_timer - 1 = 0
       THEN [s EXCEPT !.power_timer = 0,
                      !.ghosts = [i \in Ghosts |-> [s.ghosts[i] EXCEPT !.frightened = FALSE]],
                      !.ghost_score = 200]
       ELSE [s EXCEPT !.power_timer = @ - 1]
  ELSE s

\* "Fruit timer"
FruitStep(s) ==
  LET a == IF (s.dots_eaten = 70 \/ s.dots_eaten = 170) /\ ~s.fruit_active
           THEN [s EXCEPT !.fruit_active = TRUE, !.fruit_timer = 600,
                          !.fruit_log.out = Append(@, s.dots_eaten)]
           ELSE s
  IN IF a.fruit_active
     THEN IF a.fruit_timer - 1 <= 0
          THEN [a EXCEPT !.fruit_timer = @ - 1, !.fruit_active = FALSE]
          ELSE [a EXCEPT !.fruit_timer = @ - 1]
     ELSE a

\* variant: a power pellet leaves a pellet behind
EatPellet_leaves_pellet(s, pac, cfg) ==
  LET x == pac.x
      y == pac.y
  IN IF 0 <= y /\ y < Rows /\ 0 <= x /\ x < Cols
     THEN CASE s.maze[y][x] = PELLET ->
                 [s EXCEPT !.maze[y][x] = EMPTY, !.score = @ + 10, !.dots_eaten = @ + 1]
            [] s.maze[y][x] = POWER_PELLET ->
                 [s EXCEPT !.maze[y][x] = PELLET, !.score = @ + 50,
                           !.power_timer = cfg.frightened_time,
                           !.ghost_score = 200,
                           !.chain = <<>>,
                           !.captured = {},
                           !.ghosts = [i \in Ghosts |->
                                         IF s.ghosts[i].eaten THEN s.ghosts[i]
                                         ELSE [s.ghosts[i] EXCEPT !.frightened = TRUE]]]
            [] s.maze[y][x] = FRUIT_SPOT /\ s.fruit_active ->
                 [s EXCEPT !.score = @ + cfg.fruit, !.fruit_active = FALSE,
                           !.fruit_log.scored = @ + 1]
            [] OTHER -> s
     ELSE s

\* variant: a power pellet counts as a dot
EatPellet_counts_power(s, pac, cfg) ==
  LET x == pac.x
      y == pac.y
  IN IF 0 <= y /\ y < Rows /\ 0 <= x /\ x < Cols
     THEN CASE s.maze[y][x] = PELLET ->
                 [s EXCEPT !.maze[y][x] = EMPTY, !.score = @ + 10, !.dots_eaten = @ + 1]
            [] s.maze[y][x] = POWER_PELLET ->
                 [s EXCEPT !.maze[y][x] = EMPTY, !.score = @ + 50,
                           !.dots_eaten = @ + 1,
                           !.power_timer = cfg.frightened_time,
                           !.ghost_score = 200,
                           !.chain = <<>>,
                           !.captured = {},
                           !.ghosts = [i \in Ghosts |->
                                         IF s.ghosts[i].eaten THEN s.ghosts[i]
                                         ELSE [s.ghosts[i] EXCEPT !.frightened = TRUE]]]
            [] s.maze[y][x] = FRUIT_SPOT /\ s.fruit_active ->
                 [s EXCEPT !.score = @ + cfg.fruit, !.fruit_active = FALSE,
                           !.fruit_log.scored = @ + 1]
            [] OTHER -> s
     ELSE s

\* "Check pellet eating" at the player's cell
EatPellet(s, pac, cfg) ==
  LET x == pac.x
      y == pac.y
  IN IF 0 <= y /\ y < Rows /\ 0 <= x /\ x < Cols
     THEN CASE s.maze[y][x] = PELLET ->
                 [s EXCEPT !.maze[y][x] = EMPTY, !.score = @ + 10, !.dots_eaten = @ + 1]
            [] s.maze[y][x] = POWER_PELLET ->
                 [s EXCEPT !.maze[y][x] = EMPTY, !.score = @ + 50,
                           !.power_timer = cfg.frightened_time,
                           !.ghost_score = 200,
                           !.chain = <<>>,
                           !.captured = {},
                           !.ghosts = [i \in Ghosts |->
                                         IF s.ghosts[i].eaten THEN s.ghosts[i]
                                         ELSE [s.ghosts[i] EXCEPT !.frightened = TRUE]]]
            [] s.maze[y][x] = FRUIT_SPOT /\ s.fruit_active ->
                 [s EXCEPT !.score = @ + cfg.fruit, !.fruit_active = FALSE,
                           !.fruit_log.scored = @ + 1]
            [] OTHER -> s
     ELSE s

\* abs(ghost.x - pacman.x) < 0.5 and abs(ghost.y - pacman.y) < 0.5
Touches(g, pac) == 2 * Abs(g.x - pac.x) < 1 /\ 2 * Abs(g.y - pac.y) < 1

\* The collision as it would be with "ghost_score += 200" for "ghost_score *= 2"
Collide_adding(s, i, pac) ==
  LET g == s.ghosts[i]
  IN IF Touches(g, pac)
     THEN IF g.frightened
          THEN [s EXCEPT !.score = @ + s.ghost_score,
                         !.ghost_score = @ + 200,
                         !.chain = Append(@, s.ghost_score),
                         !.captured = @ \cup {i},
                         !.ghosts[i] = [g EXCEPT !.eaten = TRUE, !.frightened = FALSE]]
          ELSE IF ~g.eaten
          THEN [s EXCEPT !.state = DYING, !.death_timer = 0]
          ELSE s
     ELSE s

\* The collision as it would be did the chaser alone kill
Collide_chaser_only(s, i, pac) ==
  LET g == s.ghosts[i]
  IN IF Touches(g, pac)
     THEN IF g.frightened
          THEN [s EXCEPT !.score = @ + s.ghost_score,
                         !.ghost_score = @ * 2,
                         !.chain = Append(@, s.ghost_score),
                         !.captured = @ \cup {i},
                         !.ghosts[i] = [g EXCEPT !.eaten = TRUE, !.frightened = FALSE]]
          ELSE IF ~g.eaten /\ PERSONALITY[i] # "chaser"
          THEN s
          ELSE IF ~g.eaten
          THEN [s EXCEPT !.state = DYING, !.death_timer = 0]
          ELSE s
     ELSE s

\* The collision as it would be did a capture leave the ghost as it was
Collide_leaves_in_play(s, i, pac) ==
  LET g == s.ghosts[i]
  IN IF Touches(g, pac)
     THEN IF g.frightened
          THEN [s EXCEPT !.score = @ + s.ghost_score,
                         !.ghost_score = @ * 2,
                         !.chain = Append(@, s.ghost_score),
                         !.captured = @ \cup {i}]
          ELSE IF ~g.eaten
          THEN [s EXCEPT !.state = DYING, !.death_timer = 0]
          ELSE s
     ELSE s

\* The collision as it would be did a captured ghost stay frightened
Collide_keeps_frightened(s, i, pac) ==
  LET g == s.ghosts[i]
  IN IF Touches(g, pac)
     THEN IF g.frightened
          THEN [s EXCEPT !.score = @ + s.ghost_score,
                         !.ghost_score = @ * 2,
                         !.chain = Append(@, s.ghost_score),
                         !.captured = @ \cup {i},
                         !.ghosts[i] = [g EXCEPT !.eaten = TRUE]]
          ELSE IF ~g.eaten
          THEN [s EXCEPT !.state = DYING, !.death_timer = 0]
          ELSE s
     ELSE s

\* The body of "for ghost in ghosts" of "Check ghost collision", for ghost i
Collide(s, i, pac) ==
  LET g == s.ghosts[i]
  IN IF Touches(g, pac)
     THEN IF g.frightened
          THEN [s EXCEPT !.score = @ + s.ghost_score,
                         !.ghost_score = @ * 2,
                         !.chain = Append(@, s.ghost_score),
                         !.captured = @ \cup {i},
                         !.ghosts[i] = [g EXCEPT !.eaten = TRUE, !.frightened = FALSE]]
          ELSE IF ~g.eaten
          THEN [s EXCEPT !.state = DYING, !.death_timer = 0]
          ELSE s
     ELSE s

\* pellets_left == 0: sum(row.count(2) + row.count(3) for row in maze) is 0
\* exactly when no cell holds a pellet or a power pellet
no_pellets_left(mz) ==
  \A y \in 0..(Rows - 1), x \in 0..(Cols - 1) :
    mz[y][x] # PELLET /\ mz[y][x] # POWER_PELLET

\* "Check level complete" as it would be did it wait for the fruit to go
LevelCompleteCheck_after_fruit(s) ==
  IF no_pellets_left(s.maze) /\ ~s.fruit_active
  THEN [s EXCEPT !.state = LEVEL_COMPLETE, !.level_complete_timer = 0]
  ELSE s

\* "Check level complete"
LevelCompleteCheck(s) ==
  IF no_pellets_left(s.maze)
  THEN [s EXCEPT !.state = LEVEL_COMPLETE, !.level_complete_timer = 0]
  ELSE s

\* "Update high score"
HighScoreStep(s) ==
  IF s.score > s.high_score THEN [s EXCEPT !.high_score = s.score] ELSE s

\* "Extra life at 10000": // is the floor division, as \div is
ExtraLife(s) ==
  IF s.score \div 10000 > (s.score - 10) \div 10000
  THEN [s EXCEPT !.lives = @ + 1]
  ELSE s

\* the variables a PLAYING frame writes, from the session record
SetSession(s) ==
  /\ state' = s.state
  /\ score' = s.score
  /\ high_score' = s.high_score
  /\ lives' = s.lives
  /\ dots_eaten' = s.dots_eaten
  /\ power_timer' = s.power_timer
  /\ death_timer' = s.death_timer
  /\ level_complete_timer' = s.level_complete_timer
  /\ ghost_score' = s.ghost_score
  /\ fruit_timer' = s.fruit_timer
  /\ fruit_active' = s.fruit_active
  /\ maze' = s.maze
  /\ ghosts' = s.ghosts
  /\ chain' = s.chain
  /\ captured' = s.captured
  /\ fruit_log' = s.fruit_log

\* the player with the direction the events queued
Queued(e) == [pacman EXCEPT !.next_dx = e.next_dx, !.next_dy = e.next_dy]

(***************************************************************************)
(* The state update of one frame, by GameState.  e is the state the event  *)
(* loop of the frame left.                                                 *)
(***************************************************************************)

UpdateIntro(e) ==
  /\ e.state = INTRO
  /\ IF e.intro_timer + 1 > 200
     THEN state' = GHOST_ROLL /\ intro_timer' = 0
     ELSE state' = e.state /\ intro_timer' = e.intro_timer + 1
  /\ pacman' = Queued(e)
  /\ UNCHANGED <<score, high_score, lives, level, dots_eaten, power_timer, death_timer,
                 level_complete_timer, ghost_score, fruit_timer, fruit_active, maze,
                 ghosts, chain, captured, fruit_log, play_ticks>>
  /\ last_step' = NoSteps

UpdateGhostRoll(e) ==
  /\ e.state = GHOST_ROLL
  /\ e.intro_timer < MaxRollTicks
  /\ state' = e.state
  /\ intro_timer' = e.intro_timer + 1
  /\ pacman' = Queued(e)
  /\ UNCHANGED <<score, high_score, lives, level, dots_eaten, power_timer, death_timer,
                 level_complete_timer, ghost_score, fruit_timer, fruit_active, maze,
                 ghosts, chain, captured, fruit_log, play_ticks>>
  /\ last_step' = NoSteps

UpdateReady(e) ==
  /\ e.state = READY
  /\ intro_timer' = e.intro_timer + 1
  /\ state' = IF e.intro_timer + 1 > 120 THEN PLAYING ELSE e.state
  /\ pacman' = Queued(e)
  /\ UNCHANGED <<score, high_score, lives, level, dots_eaten, power_timer, death_timer,
                 level_complete_timer, ghost_score, fruit_timer, fruit_active, maze,
                 ghosts, chain, captured, fruit_log, play_ticks>>
  /\ last_step' = NoSteps

\* variant: the kill screen only past level 256
is_kill_level_beyond(lv) == lv > 256

\* "if level == 256": the level whose PLAYING tick shows the kill screen
is_kill_level(lv) == lv = 256

\* variant: the collisions are looked at before the pellets
UpdatePlaying_collide_first(e) ==
  /\ e.state = PLAYING
  /\ intro_timer' = e.intro_timer
  /\ UNCHANGED level
  /\ IF is_kill_level(level)
     THEN /\ state' = KILL_SCREEN
          /\ pacman' = Queued(e)
          /\ last_step' = NoSteps
          /\ UNCHANGED <<score, high_score, lives, dots_eaten, power_timer, death_timer,
                         level_complete_timer, ghost_score, fruit_timer, fruit_active,
                         maze, ghosts, chain, captured, fruit_log>>
     ELSE \E cfg \in {get_level_config(level)} :
          \E pac \in {PacUpdate(Queued(e), maze, cfg)} :
          \E g1 \in GhostUpdate(1, ghosts[1], maze, pac, cfg),
             g2 \in GhostUpdate(2, ghosts[2], maze, pac, cfg),
             g3 \in GhostUpdate(3, ghosts[3], maze, pac, cfg),
             g4 \in GhostUpdate(4, ghosts[4], maze, pac, cfg) :
          \E s1 \in {PowerTimerStep([Session EXCEPT !.ghosts = <<g1, g2, g3, g4>>])} :
          \E s2 \in {FruitStep(s1)} :
          \E c1 \in {Collide(s2, 1, pac)} :
          \E c2 \in {Collide(c1, 2, pac)} :
          \E c3 \in {Collide(c2, 3, pac)} :
          \E c4 \in {Collide(c3, 4, pac)} :
          \E s3 \in {EatPellet(c4, pac, cfg)} :
          \E s5 \in {LevelCompleteCheck(s3)} :
          \E s6 \in {HighScoreStep(s5)} :
          \E s7 \in {ExtraLife(s6)} :
            /\ pacman' = pac
            /\ last_step' = [i \in Ghosts |-> StepOf(ghosts[i], cfg)]
            /\ SetSession(s7)

UpdatePlaying(e) ==
  /\ e.state = PLAYING
  /\ intro_timer' = e.intro_timer
  /\ UNCHANGED level
  /\ IF is_kill_level(level)
     THEN /\ state' = KILL_SCREEN
          /\ pacman' = Queued(e)
          /\ last_step' = NoSteps
          /\ UNCHANGED <<score, high_score, lives, dots_eaten, power_timer, death_timer,
                         level_complete_timer, ghost_score, fruit_timer, fruit_active,
                         maze, ghosts, chain, captured, fruit_log>>
     ELSE \E cfg \in {get_level_config(level)} :
          \E pac \in {PacUpdate(Queued(e), maze, cfg)} :
          \E g1 \in GhostUpdate(1, ghosts[1], maze, pac, cfg),
             g2 \in GhostUpdate(2, ghosts[2], maze, pac, cfg),
             g3 \in GhostUpdate(3, ghosts[3], maze, pac, cfg),
             g4 \in GhostUpdate(4, ghosts[4], maze, pac, cfg) :
          \E s1 \in {PowerTimerStep([Session EXCEPT !.ghosts = <<g1, g2, g3, g4>>])} :
          \E s2 \in {FruitStep(s1)} :
          \E s3 \in {EatPellet(s2, pac, cfg)} :
          \E c1 \in {Collide(s3, 1, pac)} :
          \E c2 \in {Collide(c1, 2, pac)} :
          \E c3 \in {Collide(c2, 3, pac)} :
          \E c4 \in {Collide(c3, 4, pac)} :
          \E s5 \in {LevelCompleteCheck(c4)} :
          \E s6 \in {HighScoreStep(s5)} :
          \E s7 \in {ExtraLife(s6)} :
            /\ pacman' = pac
            /\ last_step' = [i \in Ghosts |-> StepOf(ghosts[i], cfg)]
            /\ SetSession(s7)

\* variant: the game is over only below zero lives
UpdateDying_below_zero(e) ==
  /\ e.state = DYING
  /\ death_timer' = death_timer + 1
  /\ IF death_timer + 1 > 120
     THEN /\ lives' = lives - 1
          /\ IF lives - 1 < 0
             THEN /\ state' = GAME_OVER
                  /\ pacman' = Queued(e)
                  /\ UNCHANGED ghosts
             ELSE /\ state' = READY
                  /\ pacman' = [Queued(e) EXCEPT !.x = 14, !.y = 20, !.dx = 0, !.dy = 0]
                  /\ ghosts' = [i \in Ghosts |-> GhostReset(i)]
          /\ intro_timer' = 0
     ELSE /\ state' = e.state
          /\ intro_timer' = e.intro_timer
          /\ pacman' = Queued(e)
          /\ UNCHANGED <<lives, ghosts>>
  /\ UNCHANGED <<score, high_score, level, dots_eaten, power_timer,
                 level_complete_timer, ghost_score, fruit_timer, fruit_active, maze,
                 chain, captured, fruit_log, play_ticks>>
  /\ last_step' = NoSteps

UpdateDying(e) ==
  /\ e.state = DYING
  /\ death_timer' = death_timer + 1
  /\ IF death_timer + 1 > 120
     THEN /\ lives' = lives - 1
          /\ IF lives - 1 <= 0
             THEN /\ state' = GAME_OVER
                  /\ pacman' = Queued(e)
                  /\ UNCHANGED ghosts
             ELSE /\ state' = READY
                  /\ pacman' = [Queued(e) EXCEPT !.x = 14, !.y = 20, !.dx = 0, !.dy = 0]
                  /\ ghosts' = [i \in Ghosts |-> GhostReset(i)]
          /\ intro_timer' = 0
     ELSE /\ state' = e.state
          /\ intro_timer' = e.intro_timer
          /\ pacman' = Queued(e)
          /\ UNCHANGED <<lives, ghosts>>
  /\ UNCHANGED <<score, high_score, level, dots_eaten, power_timer,
                 level_complete_timer, ghost_score, fruit_timer, fruit_active, maze,
                 chain, captured, fruit_log, play_ticks>>
  /\ last_step' = NoSteps

\* variant: the fruit of the cleared level stays out
UpdateLevelComplete_keeps_fruit(e) ==
  /\ e.state = LEVEL_COMPLETE
  /\ level_complete_timer' = level_complete_timer + 1
  /\ IF level_complete_timer + 1 > 180
     THEN /\ level' = IF level + 1 > 256 THEN 1 ELSE level + 1
          /\ maze' = MazeCopy
          /\ dots_eaten' = 0
          /\ fruit_log' = NoFruit
          /\ pacman' = [Queued(e) EXCEPT !.x = 14, !.y = 20, !.dx = 0, !.dy = 0]
          /\ ghosts' = [i \in Ghosts |-> GhostReset(i)]
          /\ state' = READY
          /\ intro_timer' = 0
     ELSE /\ state' = e.state
          /\ intro_timer' = e.intro_timer
          /\ pacman' = Queued(e)
          /\ UNCHANGED <<level, maze, dots_eaten, ghosts, fruit_log>>
  /\ UNCHANGED <<score, high_score, lives, power_timer, death_timer, ghost_score,
                 fruit_timer, fruit_active, chain, captured, play_ticks>>
  /\ last_step' = NoSteps

UpdateLevelComplete(e) ==
  /\ e.state = LEVEL_COMPLETE
  /\ level_complete_timer' = level_complete_timer + 1
  /\ IF level_complete_timer + 1 > 180
     THEN /\ level' = IF level + 1 > 256 THEN 1 ELSE level + 1
          /\ maze' = MazeCopy
          /\ dots_eaten' = 0
          /\ fruit_log' = NoFruit
          /\ fruit_active' = FALSE
          /\ pacman' = [Queued(e) EXCEPT !.x = 14, !.y = 20, !.dx = 0, !.dy = 0]
          /\ ghosts' = [i \in Ghosts |-> GhostReset(i)]
          /\ state' = READY
          /\ intro_timer' = 0
     ELSE /\ state' = e.state
          /\ intro_timer' = e.intro_timer
          /\ pacman' = Queued(e)
          /\ UNCHANGED <<level, maze, dots_eaten, fruit_active, ghosts, fruit_log>>
  /\ UNCHANGED <<score, high_score, lives, power_timer, death_timer, ghost_score,
                 fruit_timer, chain, captured, play_ticks>>
  /\ last_step' = NoSteps

\* variant: the new game forgets the high score
UpdateGameOver_forgets_high(e) ==
  /\ e.state = GAME_OVER
  /\ IF e.intro_timer + 1 > 300
     THEN /\ level' = 1
          /\ score' = 0
          /\ high_score' = 0
          /\ lives' = 3
          /\ dots_eaten' = 0
          /\ fruit_log' = NoFruit
          /\ maze' = MazeCopy
          /\ pacman' = PacManInit
          /\ ghosts' = [i \in Ghosts |-> GhostReset(i)]
          /\ state' = INTRO
          /\ intro_timer' = 0
     ELSE /\ state' = e.state
          /\ intro_timer' = e.intro_timer + 1
          /\ pacman' = Queued(e)
          /\ UNCHANGED <<level, score, high_score, lives, dots_eaten, maze, ghosts, fruit_log>>
  /\ UNCHANGED <<power_timer, death_timer, level_complete_timer,
                 ghost_score, fruit_timer, fruit_active, chain, captured, play_ticks>>
  /\ last_step' = NoSteps

UpdateGameOver(e) ==
  /\ e.state = GAME_OVER
  /\ IF e.intro_timer + 1 > 300
     THEN /\ level' = 1
          /\ score' = 0
          /\ lives' = 3
          /\ dots_eaten' = 0
          /\ fruit_log' = NoFruit
          /\ maze' = MazeCopy
          /\ pacman' = PacManInit
          /\ ghosts' = [i \in Ghosts |-> GhostReset(i)]
          /\ state' = INTRO
          /\ intro_timer' = 0
     ELSE /\ state' = e.state
          /\ intro_timer' = e.intro_timer + 1
          /\ pacman' = Queued(e)
          /\ UNCHANGED <<level, score, lives, dots_eaten, maze, ghosts, fruit_log>>
  /\ UNCHANGED <<high_score, power_timer, death_timer, level_complete_timer,
                 ghost_score, fruit_timer, fruit_active, chain, captured, play_ticks>>
  /\ last_step' = NoSteps

\* variant: the kill screen times out into the title sequence
UpdateKillScreen_to_intro(e) ==
  /\ e.state = KILL_SCREEN
  /\ state' = INTRO
  /\ intro_timer' = 0
  /\ pacman' = Queued(e)
  /\ UNCHANGED <<score, high_score, lives, level, dots_eaten, power_timer, death_timer,
                 level_complete_timer, ghost_score, fruit_timer, fruit_active, maze,
                 ghosts, chain, captured, fruit_log, play_ticks>>
  /\ last_step' = NoSteps

\* KILL_SCREEN has no branch in the state update
UpdateKillScreen(e) ==
  /\ e.state = KILL_SCREEN
  /\ state' = e.state
  /\ intro_timer' = e.intro_timer
  /\ pacman' = Queued(e)
  /\ UNCHANGED <<score, high_score, lives, level, dots_eaten, power_timer, death_timer,
                 level_complete_timer, ghost_score, fruit_timer, fruit_active, maze,
                 ghosts, chain, captured, fruit_log, play_ticks>>
  /\ last_step' = NoSteps

\* One pass of "while running" is the event loop, then the branch of the state
\* update for the GameState the events left in e: one action for each branch.
\* (The events change the GameState only from GHOST_ROLL to READY, so the test
\* of state ahead of the events loses no step.)
IntroFrame ==
  /\ running /\ state = INTRO
  /\ \E e \in AfterEvents : running' = e.running /\ UpdateIntro(e)
  /\ UNCHANGED <<meter, asked>>

GhostRollFrame ==
  /\ running /\ state = GHOST_ROLL
  /\ \E e \in AfterEvents : running' = e.running /\ UpdateGhostRoll(e)
  /\ UNCHANGED <<meter, asked>>

ReadyFrame ==
  /\ running /\ (state = READY \/ state = GHOST_ROLL)
  /\ \E e \in AfterEvents : running' = e.running /\ UpdateReady(e)
  /\ UNCHANGED <<meter, asked>>

PlayingFrame ==
  /\ running /\ state = PLAYING
  /\ play_ticks < MaxPlayTicks
  /\ play_ticks' = play_ticks + 1
  /\ \E e \in AfterEvents : running' = e.running /\ UpdatePlaying(e)
  /\ UNCHANGED <<meter, asked>>

DyingFrame ==
  /\ running /\ state = DYING
  /\ \E e \in AfterEvents : running' = e.running /\ UpdateDying(e)
  /\ UNCHANGED <<meter, asked>>

LevelCompleteFrame ==
  /\ running /\ state = LEVEL_COMPLETE
  /\ \E e \in AfterEvents : running' = e.running /\ UpdateLevelComplete(e)
  /\ UNCHANGED <<meter, asked>>

GameOverFrame ==
  /\ running /\ state = GAME_OVER
  /\ \E e \in AfterEvents : running' = e.running /\ UpdateGameOver(e)
  /\ UNCHANGED <<meter, asked>>

\* variant: the kill screen goes on after the loop flag is cleared
KillScreenFrame_after_quit ==
  /\ state = KILL_SCREEN
  /\ \E e \in AfterEvents : running' = ~e.running /\ UpdateKillScreen(e)
  /\ UNCHANGED <<meter, asked>>

KillScreenFrame ==
  /\ running /\ state = KILL_SCREEN
  /\ \E e \in AfterEvents : running' = e.running /\ UpdateKillScreen(e)
  /\ UNCHANGED <<meter, asked>>

(***************************************************************************)
(* The state after construction, and the specification                     *)
(***************************************************************************)

InitGame ==
  /\ state = INTRO
  /\ score = 0
  /\ high_score = 0
  /\ lives = 3
  /\ level = 1
  /\ dots_eaten = 0
  /\ power_timer = 0
  /\ intro_timer = 0
  /\ death_timer = 0
  /\ level_complete_timer = 0
  /\ ghost_score = 200
  /\ fruit_timer = 0
  /\ fruit_active = FALSE
  /\ maze = MazeCopy
  /\ pacman = PacManInit
  /\ ghosts = [i \in Ghosts |-> GhostInit(i)]
  /\ running = TRUE
  /\ chain = <<>>
  /\ captured = {}
  /\ fruit_log = NoFruit
  /\ last_step = NoSteps
  /\ play_ticks = 0

(***************************************************************************)
(* Mid-game states.  TLC cannot play whole levels, so besides the state    *)
(* after construction the runs start from states of a game in progress:    *)
(* PLAYING, the maze of the level minus the cells the player has been on,  *)
(* dots_eaten the number of pellets among them, and a score that 2320      *)
(* points for each cleared level (212 pellets, 4 power pellets), 10 for    *)
(* each pellet and 50 for each power pellet of this level, and multiples   *)
(* of 100 for fruits and captured ghosts add up to.                        *)
(***************************************************************************)

\* the cells of MAZE that hold a pellet or a power pellet, as <<x, y>>
Collectibles ==
  {c \in (0..(Cols - 1)) \X (0..(Rows - 1)) :
     MAZE[c[2] + 1][c[1] + 1] = PELLET \/ MAZE[c[2] + 1][c[1] + 1] = POWER_PELLET}

\* the maze of a level after the player has been on the cells E
MazeWithout(E) ==
  [y \in 0..(Rows - 1) |->
     [x \in 0..(Cols - 1) |->
        IF <<x, y>> \in E /\ <<x, y>> \in Collectibles THEN EMPTY
        ELSE MAZE[y + 1][x + 1]]]

DotsIn(E) == Cardinality({c \in E : MAZE[c[2] + 1][c[1] + 1] = PELLET})

Pac(x, y, dx, dy, acc) ==
  [x |-> x, y |-> y, dx |-> dx, dy |-> dy, next_dx |-> dx, next_dy |-> dy,
   move_accumulator |-> acc]

Gh(x, y, dx, dy, acc) ==
  [x |-> x, y |-> y, dx |-> dx, dy |-> dy, move_accumulator |-> acc,
   frightened |-> FALSE, eaten |-> FALSE]

\* PLAYING at level lv, outside a power-pellet window: gs is the award the last
\* window left for the next capture and ch the awards it gave (to the ghosts
\* that are still eaten, or to all four), fa says that the
\* latest fruit of the level is still out (with 300 of its 600 frames to go),
\* the fruits before it having been scored
MidGame(lv, sc, lvs, E, pac, gh, gs, ch, fa) ==
  /\ state = PLAYING
  /\ score = sc
  /\ high_score = sc
  /\ lives = lvs
  /\ level = lv
  /\ dots_eaten = DotsIn(E)
  /\ power_timer = 0
  /\ intro_timer = 121
  /\ death_timer = 0
  /\ level_complete_timer = IF lv > 1 THEN 181 ELSE 0
  /\ ghost_score = gs
  /\ fruit_timer = IF fa THEN 300 ELSE 0
  /\ fruit_active = fa
  /\ maze = MazeWithout(E)
  /\ pacman = pac
  /\ ghosts = gh
  /\ running = TRUE
  /\ chain = ch
  /\ captured = IF Len(ch) = 4 THEN Ghosts ELSE {i \in Ghosts : gh[i].eaten}
  /\ fruit_log = LET out == IF DotsIn(E) >= 170 THEN <<70, 170>>
                            ELSE IF DotsIn(E) >= 70 THEN <<70>> ELSE <<>>
                 IN [out |-> out, scored |-> Len(out) - (IF fa THEN 1 ELSE 0)]
  /\ last_step = NoSteps
  /\ play_ticks = 0

\* from the spawn cell left along row 20, down to row 22, left and up to (2, 20)
PathToCorner ==
  {<<x, 20>> : x \in 6..14} \cup {<<6, 21>>, <<6, 22>>, <<5, 22>>, <<4, 22>>,
   <<3, 22>>, <<3, 21>>, <<3, 20>>, <<2, 20>>}

\* the accumulators the mid-game states start with: a step due at once, or not
PacAccs == {0, 840}
GhostAccs == {0, 870}

\* Level 2, the player one cell right of the power pellet of the lower left
\* corner and heading for it, the ghosts coming down on it in pursuit
InitCorner ==
  \E pa \in PacAccs, ga \in GhostAccs :
    MidGame(2, 9970, 3, PathToCorner, Pac(2, 20, -1, 0, pa),
            <<Gh(1, 19, 0, 1, ga), Gh(1, 19, 0, 1, ga),
              Gh(1, 18, -1, 0, ga), Gh(1, 18, -1, 0, ga)>>,
            200, <<>>, FALSE)

\* Level 255, the same place, as the last two cells of the level are left.  The
\* frightened time of the level is 0, so no timer has run out since the third
\* power pellet: the four ghosts were captured after it (3000 points) and have
\* come back, and ghost_score is what the fourth capture left.
InitLast ==
  \E pa \in PacAccs, ga \in GhostAccs, fa \in BOOLEAN :
    MidGame(255, 594540, 3, Collectibles \ {<<1, 20>>, <<1, 19>>},
            Pac(2, 20, -1, 0, pa),
            <<Gh(1, 19, 0, 1, ga), Gh(1, 19, 0, 1, ga),
              Gh(1, 18, -1, 0, ga), Gh(1, 18, -1, 0, ga)>>,
            3200, <<200, 400, 800, 1600>>, fa)

\* Level 2, the last life, the last pellet at (2, 20) between the player and the
\* chaser; the other ghosts in the upper right corner
InitChased ==
  \E pa \in PacAccs, ga \in GhostAccs :
    MidGame(2, 6830, 1, Collectibles \ {<<2, 20>>}, Pac(3, 20, -1, 0, pa),
            <<Gh(1, 20, 0, 1, ga), Gh(26, 1, 1, 0, ga),
              Gh(25, 1, 1, 0, ga), Gh(24, 1, 1, 0, ga)>>,
            200, <<>>, FALSE)

\* from the spawn cell left along row 20, round the bottom of the maze by rows
\* 22 and 24, up column 21 with a detour along the right half of row 18, to
\* (21, 12): seventy pellets and no power pellet
PathToFruit ==
  {<<x, 20>> : x \in 6..12} \cup {<<6, 21>>, <<6, 22>>, <<1, 23>>, <<26, 23>>,
   <<21, 21>>, <<21, 20>>, <<26, 19>>}
    \cup {<<x, 22>> : x \in (1..5) \cup (21..26)}
    \cup {<<x, 24>> : x \in 1..26}
    \cup {<<21, y>> : y \in 12..19}
    \cup {<<x, 18>> : x \in 15..26}

\* Level 1, the seventieth pellet eaten and the first fruit out: the player has
\* come by row 12 and column 18 into the row of the fruit and is one cell right
\* of it, the ghosts in the upper left corner
InitFruit ==
  \E pa \in PacAccs, ga \in GhostAccs :
    MidGame(1, 700, 3, PathToFruit, Pac(15, 15, -1, 0, pa),
            <<Gh(1, 1, -1, 0, ga), Gh(2, 1, -1, 0, ga),
              Gh(3, 1, -1, 0, ga), Gh(4, 1, -1, 0, ga)>>,
            200, <<>>, TRUE)

\* Level 1 on the last life, the first fruit out as in InitFruit: the player
\* waits one cell right of the fruit and the chaser, coming along row 15 from
\* the right, is due to step onto the player's cell in the next frame
InitFruitLastLife ==
  MidGame(1, 700, 1, PathToFruit, Pac(15, 15, -1, 0, 0),
          <<Gh(16, 15, -1, 0, 880), Gh(1, 1, -1, 0, 0),
            Gh(2, 1, -1, 0, 0), Gh(3, 1, -1, 0, 0)>>,
          200, <<>>, TRUE)

\* from the spawn cell right along row 20, down to row 22, right and up to the
\* power pellet of the lower right corner, (26, 20)
PathToRightCorner ==
  {<<x, 20>> : x \in 15..21} \cup {<<21, 21>>, <<21, 22>>, <<22, 22>>, <<23, 22>>,
   <<24, 22>>, <<24, 21>>, <<24, 20>>, <<25, 20>>, <<26, 20>>}

\* Level 2, 100 frames left of the window that the power pellet of the lower
\* right corner opened: the player has come back by the same way and gone on to
\* the lower left corner, one cell right of its power pellet.  The pokey was
\* captured on the way (200 points) and, eaten, has come to rest between
\* (3, 20) and (3, 21); the other ghosts are frightened in the upper right corner.
InitSecondPellet ==
  /\ state = PLAYING
  /\ score = 10 * DotsIn(PathToCorner \cup PathToRightCorner) + 50 + 200
  /\ high_score = score
  /\ lives = 3
  /\ level = 2
  /\ dots_eaten = DotsIn(PathToCorner \cup PathToRightCorner)
  /\ power_timer = 100
  /\ intro_timer = 121
  /\ death_timer = 0
  /\ level_complete_timer = 181
  /\ ghost_score = 400
  /\ fruit_timer = 0
  /\ fruit_active = FALSE
  /\ maze = MazeWithout(PathToCorner \cup PathToRightCorner)
  /\ pacman = Pac(2, 20, -1, 0, 840)
  /\ ghosts = <<[Gh(26, 1, 1, 0, 0) EXCEPT !.frightened = TRUE],
                [Gh(25, 1, 1, 0, 0) EXCEPT !.frightened = TRUE],
                [Gh(24, 1, 1, 0, 0) EXCEPT !.frightened = TRUE],
                [Gh(3, 21, 0, 1, 0) EXCEPT !.eaten = TRUE]>>
  /\ running = TRUE
  /\ chain = <<200>>
  /\ captured = {4}
  /\ fruit_log = NoFruit
  /\ last_step = NoSteps
  /\ play_ticks = 0

\* Level 2, soon after the start: the player has gone left along row 20 as far
\* as (8, 20); the chaser has come down column 6 and turned into the row, and
\* stands on the next cell, (7, 20), heading for the player.  Both are due for
\* a grid step in the next frame.  Two ghosts are in the upper right corner;
\* the last one, captured in a power-pellet window that has run out since, is
\* on its way home and stands in the door above (14, 11).
InitHeadOn ==
  MidGame(2, 50, 3, {<<x, 20>> : x \in 8..14}, Pac(8, 20, -1, 0, 840),
          <<Gh(7, 20, 1, 0, 870), Gh(26, 1, 1, 0, 0), Gh(25, 1, 1, 0, 0),
            [Gh(14, 10, 0, 1, 500) EXCEPT !.eaten = TRUE]>>,
          200, <<200>>, FALSE)

\* no call of get_level_config looked at
NotAsked == [level |-> 1, called |-> FALSE, config |-> get_level_config(1)]

\* the meter at rest
MeterOff == [speed |-> 0, ticks |-> 0, move_accumulator |-> <<0, 0>>, steps |-> 0]

Init ==
  /\ \/ InitGame \/ InitCorner \/ InitLast \/ InitChased \/ InitFruit
     \/ InitSecondPellet \/ InitHeadOn \/ InitFruitLastLife
  /\ meter = MeterOff /\ asked = NotAsked

Next ==
  \/ IntroFrame
  \/ GhostRollFrame
  \/ ReadyFrame
  \/ PlayingFrame
  \/ DyingFrame
  \/ LevelCompleteFrame
  \/ GameOverFrame
  \/ KillScreenFrame

Spec == Init /\ [][Next]_vars

(***************************************************************************)
(* The PLAYING phase with the player's hands off the direction keys: the   *)
(* frames whose events leave the queued direction as it was.  The loop     *)
(* runs a frame in every pass while running holds, hence the fairness.     *)
(* These runs need no bound on the frames: the score rests, and the state  *)
(* comes back to where it has been.                                        *)
(***************************************************************************)

IdlePlayingFrame ==
  /\ running /\ state = PLAYING
  /\ UNCHANGED play_ticks
  /\ \E e \in AfterEvents :
       /\ e.next_dx = pacman.next_dx /\ e.next_dy = pacman.next_dy
       /\ running' = e.running
       /\ UpdatePlaying(e)
  /\ UNCHANGED <<meter, asked>>

NextIdle == IdlePlayingFrame

InitIdle == InitCorner /\ meter = MeterOff /\ asked = NotAsked

SpecIdle == InitIdle /\ [][NextIdle]_vars /\ WF_vars(IdlePlayingFrame)

(***************************************************************************)
(* One entity updated tick after tick at a constant speed, its accumulator *)
(* starting from 0: the first two statements of PacMan.update and          *)
(* Ghost.update with the loop that follows, in the arithmetic of the       *)
(* interpreter.  The game stands as constructed.                           *)
(***************************************************************************)

InitAccumulate ==
  /\ InitGame /\ asked = NotAsked
  /\ \E s \in ConfigSpeeds : meter = [MeterOff EXCEPT !.speed = s]

AccumulateTick ==
  /\ meter.ticks < MaxAccTicks
  /\ meter' = MeterUpdate(meter)
  /\ UNCHANGED <<state, score, high_score, lives, level, dots_eaten, power_timer,
                 intro_timer, death_timer, level_complete_timer, ghost_score,
                 fruit_timer, fruit_active, maze, pacman, ghosts, running, chain, captured,
                 fruit_log, last_step, play_ticks, asked>>

NextAccumulate == AccumulateTick

SpecAccumulate == InitAccumulate /\ [][NextAccumulate]_vars

(***************************************************************************)
(* get_level_config called once with any integer of a range that holds the *)
(* levels of the game, 0, negative numbers and numbers above 256.  The     *)
(* game stands as constructed.                                             *)
(***************************************************************************)

InitConfig ==
  /\ InitGame /\ meter = MeterOff
  /\ \E lv \in (-BelowAsked)..MaxAsked : asked = [NotAsked EXCEPT !.level = lv]

CallConfig ==
  /\ ~asked.called
  /\ asked' = [asked EXCEPT !.called = TRUE, !.config = get_level_config(asked.level)]
  /\ UNCHANGED <<state, score, high_score, lives, level, dots_eaten, power_timer,
                 intro_timer, death_timer, level_complete_timer, ghost_score,
                 fruit_timer, fruit_active, maze, pacman, ghosts, running, chain, captured,
                 fruit_log, last_step, play_ticks, meter>>

NextConfig == CallConfig

SpecConfig == InitConfig /\ [][NextConfig]_vars

(***************************************************************************)
(* The claims                                                              *)
(***************************************************************************)

\* a frame of the PLAYING branch that runs the simulation (not the one that
\* enters the kill screen)
PlayingTickNow == running /\ state = PLAYING /\ level # 256

\* C1: in a PLAYING frame the lives change only by one more life, and only if the
\* score ends the frame in a higher 10000-bucket than it began it in; no life is
\* granted in a frame that leaves the score as it was.
C1_LifeOnlyOnCrossing ==
  [][(PlayingTickNow /\ lives' # lives)
       => (lives' = lives + 1 /\ score' \div 10000 > score \div 10000)]_vars

\* C2: every PLAYING frame whose increment carries the score across a multiple of
\* 10000 grants exactly one life.
C2_NoCrossingMissed ==
  [][(PlayingTickNow /\ score' \div 10000 > score \div 10000)
       => lives' = lives + 1]_vars

\* C3: the awards for the ghosts captured since the last power pellet are 200,
\* 400, 800 and 1600 in that order, at most four of them, and while a ghost is
\* frightened the next award is the double of the last one, 200 after the power
\* pellet that opened the window.
C3_ChainScoring ==
  /\ Len(chain) <= 4
  /\ \A i \in 1..Len(chain) : chain[i] = 200 * 2^(i - 1)
  /\ (\E g \in Ghosts : ghosts[g].frightened) => ghost_score = 200 * 2^Len(chain)

\* four captures in the window that the power pellet of the corner opened
C3_FourCaptures == level = 2 /\ chain = <<200, 400, 800, 1600>>

\* C4: a PLAYING frame that leaves no pellet and no power pellet in the maze
\* leaves the state LEVEL_COMPLETE, whatever the fruit is doing.
C4_LevelCompleteSameTick ==
  [][(PlayingTickNow /\ no_pellets_left(maze')) => state' = LEVEL_COMPLETE]_vars

\* the level completed in this frame with the fruit out
C4_CompleteWithFruit ==
  /\ state = LEVEL_COMPLETE /\ level_complete_timer = 0
  /\ no_pellets_left(maze) /\ fruit_active /\ fruit_timer > 0

\* a ghost in pursuit is on the player's cell
PursuitTouch ==
  \E g \in Ghosts :
    Touches(ghosts[g], pacman) /\ ~ghosts[g].frightened /\ ~ghosts[g].eaten

\* C5, as the claim has it: a PLAYING frame that ends with a ghost in pursuit on
\* the player's cell leaves the state DYING.
C5_CollisionFatal ==
  [][(PlayingTickNow /\ PursuitTouch') => state' = DYING]_vars

\* C5, as the code has it: such a frame leaves the state DYING with the death
\* timer at 0, unless it leaves no pellet and no power pellet, and then it leaves
\* LEVEL_COMPLETE; and the frame that ends DYING takes one life.
C5_CollisionFatalUnlessComplete ==
  [][/\ (PlayingTickNow /\ PursuitTouch')
          => IF no_pellets_left(maze') THEN state' = LEVEL_COMPLETE
             ELSE state' = DYING /\ death_timer' = 0
     /\ (running /\ state = DYING /\ state' # DYING) => lives' = lives - 1]_vars

\* the player has just run into a ghost in pursuit, pellets being left
C5_Caught ==
  state = DYING /\ death_timer = 0 /\ PursuitTouch /\ ~no_pellets_left(maze)

\* the ghost g is back in the home cell (14, 11) and in pursuit
Home(g) ==
  ghosts[g].x = 14 /\ ghosts[g].y = 11 /\ ~ghosts[g].eaten /\ ~ghosts[g].frightened

\* C6: a ghost that is eaten is later back in the home cell and in pursuit, as
\* long as the PLAYING frames go on.
C6_EatenReturnsHome ==
  \A g \in Ghosts :
    ghosts[g].eaten ~> (Home(g) \/ state # PLAYING \/ ~running)

\* C7: when power_timer is 0 no ghost is frightened.
C7_FrightenedEndsWithTimer ==
  power_timer = 0 => \A g \in Ghosts : ~ghosts[g].frightened

\* the ghost i as the frame before began, from last_step
Before(i) ==
  [x |-> last_step[i].x, y |-> last_step[i].y,
   dx |-> last_step[i].dx, dy |-> last_step[i].dy]

\* the ghost i had a move other than the reverse of its direction
HadChoice(i) ==
  \E k \in 1..4 :
    /\ DIRECTIONS[k] # <<-Before(i).dx, -Before(i).dy>>
    /\ can_move(Before(i).x + DIRECTIONS[k][1], Before(i).y + DIRECTIONS[k][2], maze)

\* C8: a ghost that takes a grid step in pursuit or frightened, and has a move
\* other than the reverse of its direction, does not choose the reverse.
C8_NoReverse ==
  [][PlayingTickNow =>
       \A i \in Ghosts :
         LET g == ghosts[i]
             cfg == get_level_config(level)
         IN (/\ g.move_accumulator + GhostSpeed(g, cfg) >= ONE
             /\ ~g.eaten
             /\ \E k \in 1..4 :
                  /\ DIRECTIONS[k] # <<-g.dx, -g.dy>>
                  /\ can_move(g.x + DIRECTIONS[k][1], g.y + DIRECTIONS[k][2], maze))
            => <<ghosts'[i].dx, ghosts'[i].dy>> # <<-g.dx, -g.dy>>]_vars

\* a frightened ghost that was moving took a step where it could have reversed
\* and could have not
C8_FrightenedChoice ==
  \E i \in Ghosts :
    /\ last_step[i].mode = "frightened"
    /\ <<Before(i).dx, Before(i).dy>> # <<0, 0>>
    /\ can_move(Before(i).x - Before(i).dx, Before(i).y - Before(i).dy, maze)
    /\ HadChoice(i)
    /\ <<ghosts[i].dx, ghosts[i].dy>> # <<-Before(i).dx, -Before(i).dy>>

\* the direction ai_move chooses for the ghost i towards the target t
Towards(i, t) ==
  LET g == Before(i)
      Dist(d) == (g.x + d[1] - t[1]) * (g.x + d[1] - t[1])
                 + (g.y + d[2] - t[2]) * (g.y + d[2] - t[2])
  IN FirstMin(valid_dirs(g, maze), Dist)

\* C9: a step of the fickle ghost in pursuit is the step towards the reflection
\* of the pivot (the player's cell plus twice its direction) through the cell of
\* the chaser, which has moved before it in the frame.
C9_FickleReflectsChaser ==
  last_step[3].mode = "pursuit" =>
    <<ghosts[3].dx, ghosts[3].dy>> =
      Towards(3, <<2 * (pacman.x + 2 * pacman.dx) - ghosts[1].x,
                   2 * (pacman.y + 2 * pacman.dy) - ghosts[1].y>>)

\* the square of the distance of pokey, as its step began, to the player
PokeyDist2 ==
  (Before(4).x - pacman.x) * (Before(4).x - pacman.x)
  + (Before(4).y - pacman.y) * (Before(4).y - pacman.y)

\* C10: a step of pokey in pursuit is the step towards the player's cell if the
\* distance to the player is more than 8 (its square more than 64), and the step
\* towards the corner (0, 25) if it is 8 or less.
C10_PokeyThreshold ==
  last_step[4].mode = "pursuit" =>
    <<ghosts[4].dx, ghosts[4].dy>> =
      Towards(4, IF PokeyDist2 > 64 THEN <<pacman.x, pacman.y>> ELSE <<0, 25>>)

\* pokey has stepped at the distance 8, where the two targets part the ways
C10_AtEight ==
  /\ last_step[4].mode = "pursuit"
  /\ PokeyDist2 = 64
  /\ Towards(4, <<pacman.x, pacman.y>>) # Towards(4, <<0, 25>>)


\* the square of the distance to the point t of the cell that the direction
\* number k leads the ghost i to, from where it was as the frame began
Dist2(i, k, t) ==
  (Before(i).x + DIRECTIONS[k][1] - t[1]) * (Before(i).x + DIRECTIONS[k][1] - t[1])
  + (Before(i).y + DIRECTIONS[k][2] - t[2]) * (Before(i).y + DIRECTIONS[k][2] - t[2])

\* the numbers, in the order up, down, left, right, of the directions that lead
\* the ghost i to a cell that is no wall and are not the reverse of its direction
Candidates(i) ==
  {k \in 1..4 :
     /\ DIRECTIONS[k] # <<-Before(i).dx, -Before(i).dy>>
     /\ can_move(Before(i).x + DIRECTIONS[k][1], Before(i).y + DIRECTIONS[k][2], maze)}

\* the direction d is the reverse if there is no candidate, and else the first
\* of the candidates nearest to t
NearestFirst(i, t, d) ==
  IF Candidates(i) = {} THEN d = <<-Before(i).dx, -Before(i).dy>>
  ELSE \E k \in Candidates(i) :
         /\ d = DIRECTIONS[k]
         /\ \A j \in Candidates(i) :
              /\ Dist2(i, k, t) <= Dist2(i, j, t)
              /\ j < k => Dist2(i, j, t) > Dist2(i, k, t)

\* C11: a step of the chaser in pursuit is the first nearest candidate for the
\* player's cell, and a step of the ambusher the first nearest candidate for the
\* player's cell plus four times the player's direction.
C11_PursuitChoice ==
  /\ last_step[1].mode = "pursuit" =>
       NearestFirst(1, <<pacman.x, pacman.y>>, <<ghosts[1].dx, ghosts[1].dy>>)
  /\ last_step[2].mode = "pursuit" =>
       NearestFirst(2, <<pacman.x + 4 * pacman.dx, pacman.y + 4 * pacman.dy>>,
                    <<ghosts[2].dx, ghosts[2].dy>>)

\* the chaser has stepped where two candidates were equally near and nearest
C11_TieBroken ==
  /\ last_step[1].mode = "pursuit"
  /\ \E k \in Candidates(1), j \in Candidates(1) :
       /\ k < j
       /\ Dist2(1, k, <<pacman.x, pacman.y>>) = Dist2(1, j, <<pacman.x, pacman.y>>)
       /\ \A n \in Candidates(1) :
            Dist2(1, k, <<pacman.x, pacman.y>>) <= Dist2(1, n, <<pacman.x, pacman.y>>)

\* where the player stands, heads and how far the accumulator is: all of the
\* player but the direction the keys queue
Placed(p) == <<p.x, p.y, p.dx, p.dy, p.move_accumulator>>

\* C12: the PLAYING tick that follows READY at level 256 moves the state to
\* KILL_SCREEN and applies nothing else: the player, the ghosts, the maze,
\* the score, the lives, the timers and the pellet count are as they were.
C12_KillScreenEntry ==
  [][(state = PLAYING /\ level = 256)
       => /\ state' = KILL_SCREEN
          /\ Placed(pacman') = Placed(pacman)
          /\ UNCHANGED <<ghosts, maze, score, high_score, lives, dots_eaten,
                         power_timer, fruit_timer, fruit_active, ghost_score,
                         death_timer, level_complete_timer>>]_vars

\* the kill screen was entered from level 255's last pellet
C12_KillScreenShown ==
  state = KILL_SCREEN /\ level = 256 /\ dots_eaten = 0 /\ Placed(pacman) = Placed(PacManInit)

\* C13: once the state is KILL_SCREEN no frame changes the state, the level,
\* the score, the lives, the maze, the ghosts or the player; only a quit event
\* has an effect, and it ends the loop.
C13_KillScreenStays ==
  [][state = KILL_SCREEN
       => /\ state' = KILL_SCREEN
          /\ UNCHANGED <<level, score, high_score, lives, maze, ghosts, pacman,
                         dots_eaten, intro_timer>>]_vars

\* the loop was left from the kill screen
C13_QuitOnKillScreen == state = KILL_SCREEN /\ ~running

\* the player at (14, 20) heading nowhere
PlayerAtSpawn(p) == p.x = 14 /\ p.y = 20 /\ p.dx = 0 /\ p.dy = 0

\* every ghost at its start cell, neither frightened nor eaten
GhostsAtStart(gs) ==
  \A i \in Ghosts : /\ gs[i].x = START[i][1] /\ gs[i].y = START[i][2]
                    /\ ~gs[i].frightened /\ ~gs[i].eaten

\* C15: the DYING frame that takes death_timer past 120 takes one life; with
\* no life left the state is GAME_OVER, otherwise the player is at (14, 20)
\* with no direction, every ghost is at its start cell in pursuit and the state
\* is READY; the level, the score, the pellet count and the maze are unchanged.
C15_DyingExpiry ==
  [][(state = DYING /\ death_timer + 1 > 120)
       => /\ lives' = lives - 1
          /\ IF lives' = 0
             THEN state' = GAME_OVER
             ELSE state' = READY /\ PlayerAtSpawn(pacman') /\ GhostsAtStart(ghosts')
          /\ UNCHANGED <<level, score, dots_eaten, maze>>]_vars

\* a life was lost and the level goes on
C15_LifeLost == state = READY /\ intro_timer = 0 /\ death_timer > 120 /\ lives > 0

\* the last life was lost
C15_LastLifeLost == state = GAME_OVER /\ intro_timer = 0 /\ lives = 0

\* every cell of the maze holds what MAZE holds there
IsStaticLayout(mz) ==
  \A y \in 0..(Rows - 1), x \in 0..(Cols - 1) : mz[y][x] = MAZE[y + 1][x + 1]

\* C16: the LEVEL_COMPLETE frame that takes level_complete_timer past 180
\* raises the level by one and leaves the maze equal to MAZE, the pellet count
\* 0, the fruit inactive, the player at (14, 20), every ghost at its start cell
\* in pursuit and the state READY; the score and the lives are unchanged.
C16_LevelCompleteExpiry ==
  [][(state = LEVEL_COMPLETE /\ level_complete_timer + 1 > 180)
       => /\ level' = level + 1
          /\ IsStaticLayout(maze')
          /\ dots_eaten' = 0
          /\ ~fruit_active'
          /\ PlayerAtSpawn(pacman') /\ GhostsAtStart(ghosts')
          /\ state' = READY
          /\ UNCHANGED <<score, lives>>]_vars

\* the next level is about to start, the fruit of the cleared one having been out
C16_NextLevelReady ==
  /\ state = READY /\ intro_timer = 0 /\ level_complete_timer > 180
  /\ level = 256 /\ fruit_timer > 0

\* C17: the GAME_OVER frame that takes intro_timer past 300 leaves the score
\* 0, the lives 3, the level 1, the pellet count 0, the maze equal to MAZE,
\* the player as constructed, every ghost at its start cell in pursuit and the
\* state INTRO; the high score is kept.
C17_GameOverExpiry ==
  [][(state = GAME_OVER /\ intro_timer + 1 > 300)
       => /\ score' = 0 /\ lives' = 3 /\ level' = 1 /\ dots_eaten' = 0
          /\ IsStaticLayout(maze')
          /\ pacman' = PacManInit
          /\ GhostsAtStart(ghosts')
          /\ state' = INTRO
          /\ UNCHANGED high_score]_vars

\* a new game after a lost one, the high score of the lost one standing
C17_NewGame ==
  /\ state = INTRO /\ intro_timer = 0 /\ death_timer > 120
  /\ score = 0 /\ high_score > 0 /\ lives = 3 /\ level = 1

\* C18: SPACE is the only way out of GHOST_ROLL and does nothing elsewhere.
\* At any point of the event loop of any frame, handling SPACE changes what
\* the loop has written exactly when the state is GHOST_ROLL, and then the
\* state becomes READY; no other event changes the state.  A frame taken in
\* GHOST_ROLL whose events left GHOST_ROLL standing stays in GHOST_ROLL
\* whatever intro_timer is, and the frame that leaves GHOST_ROLL leaves it
\* for READY with intro_timer restarted and the session untouched.  READY is
\* entered from nowhere else than GHOST_ROLL, an expired DYING and an expired
\* LEVEL_COMPLETE.
C18_AdvanceOnly ==
  [][/\ \A e \in AfterEvents :
          /\ (HandleEvent(e, "K_SPACE") # e) <=> (e.state = GHOST_ROLL)
          /\ e.state = GHOST_ROLL => HandleEvent(e, "K_SPACE").state = READY
          /\ \A ev \in EVENTS \ {"K_SPACE"} : HandleEvent(e, ev).state = e.state
     /\ state = GHOST_ROLL =>
          /\ \A e \in AfterEvents :
               (e.state = GHOST_ROLL /\ UpdateGhostRoll(e)) => state' = GHOST_ROLL
          /\ state' # GHOST_ROLL =>
               /\ state' = READY /\ intro_timer' = 1
               /\ UNCHANGED <<score, high_score, lives, level, dots_eaten, power_timer,
                              death_timer, level_complete_timer, ghost_score,
                              fruit_timer, fruit_active, maze, ghosts, pacman>>
     /\ (state' = READY /\ state # READY) =>
          \/ state = GHOST_ROLL
          \/ state = DYING /\ death_timer' > 120
          \/ state = LEVEL_COMPLETE /\ level_complete_timer' > 180]_vars

\* SPACE was pressed after GHOST_ROLL had run for some frames
C18_Advanced ==
  /\ state = READY /\ intro_timer = 1 /\ score = 0 /\ level = 1
  /\ death_timer = 0 /\ level_complete_timer = 0

\* the accumulator is the fractional part of th thousandths, up to 2^-28
NearFraction(a, th) ==
  LET f == Binary64(th % ONE)
  IN a[1] - f[1] \in {-1, 0, 1}

\* C19: after n updates at the constant speed s from accumulator 0, the grid
\* steps performed number floor(s * n) and the accumulator is
\* s * n - floor(s * n).
C19_StepsAreFloor ==
  /\ meter.steps = (meter.speed * meter.ticks) \div ONE
  /\ NearFraction(meter.move_accumulator, meter.speed * meter.ticks)

\* C20: in one level the fruit is put out only at 70 and at 170 pellets and
\* once for each, while out it has between 1 and 600 frames left, and so no
\* more than two fruits are scored in the level.
C20_FruitOncePerThreshold ==
  /\ \A i \in 1..Len(fruit_log.out) : fruit_log.out[i] \in {70, 170}
  /\ \A i, j \in 1..Len(fruit_log.out) : i # j => fruit_log.out[i] # fruit_log.out[j]
  /\ fruit_active => fruit_timer \in 1..600
  /\ fruit_log.scored <= 2

\* the sum of a tuple of numbers
RECURSIVE SumSeq(_)
SumSeq(q) == IF q = <<>> THEN 0 ELSE Head(q) + SumSeq(Tail(q))

\* the PLAYING frame in which the player's move ends on a power pellet
OnPowerPellet == PlayingTickNow /\ maze[pacman'.y][pacman'.x] = POWER_PELLET

\* the ghost i is eaten as the frame begins and its move of the frame is not
\* the one that finds it in the home cell: it is eaten when the pellets and the
\* collisions of the frame are looked at
EatenThrough(i) ==
  /\ ghosts[i].eaten
  /\ ~(last_step'[i].mode = "eaten" /\ ghosts[i].x = 14 /\ ghosts[i].y = 11)

\* C21: in the PLAYING frame in which the player's move ends on a power
\* pellet the cell becomes EMPTY, the pellet adds 50 to the score (the
\* captures that follow in the frame add their awards), power_timer is the
\* frightened_time of the level, the award for the next capture is 200 (doubled
\* by each capture of the frame), every eaten ghost stays eaten and is not
\* frightened, every other ghost is frightened unless the frame captures it,
\* and dots_eaten is unchanged.
C21_PowerPellet ==
  [][OnPowerPellet
       => /\ maze'[pacman'.y][pacman'.x] = EMPTY
          /\ score' = score + 50 + SumSeq(chain')
          /\ power_timer' = get_level_config(level).frightened_time
          /\ ghost_score' = 200 * 2^Len(chain')
          /\ \A i \in Ghosts :
               IF EatenThrough(i)
               THEN ghosts'[i].eaten /\ ~ghosts'[i].frightened
               ELSE ghosts'[i].frightened # ghosts'[i].eaten
          /\ dots_eaten' = dots_eaten]_vars

\* the second power pellet of the level was eaten in the frame before, with the
\* pokey eaten since the first
C21_PowerPelletEaten ==
  /\ level = 2 /\ power_timer = 300 /\ maze[20][1] = EMPTY /\ chain = <<>>
  /\ pacman.x = 1 /\ pacman.y = 20
  /\ ghosts[4].eaten /\ \A i \in 1..3 : ghosts[i].frightened

\* the configuration of level 21 with the last fruit: 0.25, 0.32, 0 and the Key
\* (the only entry of FRUITS worth 5000)
Capped(c) ==
  /\ c.pac_speed = 250 /\ c.ghost_speed = 320 /\ c.frightened_time = 0
  /\ c.fruit = 5000

\* the configuration of the kill screen
Degenerate(c) ==
  c.pac_speed = 50 /\ c.ghost_speed = 300 /\ c.frightened_time = 10 /\ c.fruit = 0

\* C22: for the levels 22 to 255 get_level_config returns the speeds and the
\* frightened time of level 21 (0.25, 0.32, 0), for the levels 13 to 255 the
\* fruit is the thirteenth entry of FRUITS, and level 256 alone gets the
\* configuration of the kill screen.
C22_ConfigClamped ==
  asked.called =>
    /\ asked.level \in 22..255 =>
         /\ Capped(asked.config)
         /\ asked.config = get_level_config(21)
    /\ asked.level \in 13..255 => asked.config.fruit = FRUITS[13]
    /\ Degenerate(asked.config) <=> asked.level = 256

\* the call for the last level before the kill screen has returned
C22_AskedLast == asked.called /\ asked.level = 255

\* C23: for every integer outside 1..256 get_level_config returns, and what
\* it returns is the capped configuration of level 21 with the last fruit.
C23_MalformedFallsBack ==
  (asked.called /\ asked.level \notin 1..256) => Capped(asked.config)

\* the frame makes the maze anew: "maze = [row[:] for row in MAZE]"
Regenerates ==
  \/ state = LEVEL_COMPLETE /\ state' = READY
  \/ state = GAME_OVER /\ state' = INTRO

\* C24: but for the frames that make the maze anew, a cell of the maze changes
\* only from PELLET, POWER_PELLET or FRUIT_SPOT to EMPTY and only where the
\* player is; WALL, EMPTY and DOOR cells never change.
C24_MazeMutation ==
  [][(~Regenerates /\ maze' # maze) =>
       \A y \in {r \in 0..(Rows - 1) : maze'[r] # maze[r]}, x \in 0..(Cols - 1) :
         maze'[y][x] # maze[y][x] =>
           /\ maze[y][x] \in {PELLET, POWER_PELLET, FRUIT_SPOT}
           /\ maze'[y][x] = EMPTY
           /\ pacman'.x = x /\ pacman'.y = y]_vars

\* the power pellet of the corner and the pellet above it have been eaten
C24_TwoCellsEaten ==
  /\ level = 2 /\ state = PLAYING /\ dots_eaten = 16
  /\ maze[20][1] = EMPTY /\ maze[19][1] = EMPTY

\* the entity t (the player or a ghost) is on a cell of the grid that is no wall
OffWalls(t) ==
  /\ 0 <= t.x /\ t.x < Cols /\ 0 <= t.y /\ t.y < Rows
  /\ maze[t.y][t.x] # WALL

\* the grid step that took the entity from a to b went to the next cell in the
\* direction b heads, or nowhere if that cell is a wall or off the grid
SteppedOrStayed(a, b) ==
  LET nx == a.x + b.dx
      ny == a.y + b.dy
      free == /\ 0 <= nx /\ nx < Cols /\ 0 <= ny /\ ny < Rows
              /\ maze[ny][nx] # WALL
  IN IF free THEN b.x = nx /\ b.y = ny ELSE b.x = a.x /\ b.y = a.y

C26_QuitImmediate ==
  [][(running /\ ~running')
       => UNCHANGED <<state, intro_timer, death_timer, level_complete_timer,
                      power_timer, fruit_timer, score, lives, maze, pacman,
                      ghosts>>]_vars

\* C26 as the loop has it: the frame that reads a quit event still runs its
\* state update (a timer, the state or the player's accumulator moves on,
\* except on the kill screen, which has no update), and after it nothing
\* changes any more.
C26_QuitAfterUpdate ==
  [][/\ ~running => UNCHANGED vars
     /\ (running /\ ~running' /\ state # KILL_SCREEN)
          => <<state, intro_timer, death_timer, level_complete_timer, pacman>>'
               # <<state, intro_timer, death_timer, level_complete_timer, pacman>>]_vars

\* the first PLAYING frame read a quit event, and the player ate the power
\* pellet of the corner in it
C26_QuitFrameApplied ==
  ~running /\ play_ticks = 1 /\ level = 2 /\ score = 10020 /\ pacman.x = 1

\* the ghost i ends its move of the frame on the player's cell, and was in
\* pursuit as the frame began
MetInPursuit(i) ==
  /\ ~ghosts[i].frightened /\ ~ghosts[i].eaten
  /\ Touches(ghosts'[i], pacman')

\* C27: in a PLAYING frame the pellets are looked at before the collisions.
\* If the player's move ends on a power pellet and a ghost that was in pursuit
\* ends its move on the same cell, the ghost is frightened first and captured:
\* it ends the frame eaten and not frightened, the captures of the frame are
\* awarded 200, 400, ... in the order of the ghosts, and the frame does not
\* lead to DYING.
C27_PelletBeforeCollision ==
  [][(OnPowerPellet /\ \E i \in Ghosts : MetInPursuit(i))
       => /\ state' # DYING
          /\ \A i \in Ghosts :
               MetInPursuit(i) => ghosts'[i].eaten /\ ~ghosts'[i].frightened
          /\ Len(chain') = Cardinality({i \in Ghosts : Touches(ghosts'[i], pacman')
                                                       /\ ghosts'[i].eaten
                                                       /\ ~EatenThrough(i)})
          /\ Len(chain') >= 1 /\ chain'[1] = 200
          /\ score' = score + 50 + SumSeq(chain')]_vars

\* the chaser came down on the power pellet of the corner in the frame in
\* which the player took it, and was captured for 200
C27_CapturedOnPellet ==
  /\ level = 2 /\ state = PLAYING /\ play_ticks = 1 /\ power_timer = 300
  /\ pacman.x = 1 /\ pacman.y = 20
  /\ ghosts[1].x = 1 /\ ghosts[1].y = 20 /\ ghosts[1].eaten
  /\ Len(chain) >= 1 /\ chain[1] = 200

\* in this frame the player and the ghost i have each stepped onto the cell
\* the other was on: a head-on exchange of two adjacent cells
Exchanged(i) ==
  /\ <<pacman.x, pacman.y>> # <<ghosts[i].x, ghosts[i].y>>
  /\ <<pacman'.x, pacman'.y>> = <<ghosts[i].x, ghosts[i].y>>
  /\ <<ghosts'[i].x, ghosts'[i].y>> = <<pacman.x, pacman.y>>

\* C28: if in a PLAYING frame the player and a ghost in pursuit step onto each
\* other's cell, the frame still counts it as a collision and leads to DYING.
C28_NoPassingThrough ==
  [][(PlayingTickNow /\ \E i \in Ghosts :
        ~ghosts[i].frightened /\ ~ghosts[i].eaten /\ Exchanged(i))
       => state' = DYING]_vars

\* C29: the fruit is out only once the dots-eaten counter of the level has
\* reached the first threshold, 70; in particular it is not out when a new
\* game or a new level starts.
C29_FruitOnlyAfterThreshold ==
  fruit_active => dots_eaten >= 70

\* the ghost i is frightened when the collision loop of the frame reaches it:
\* it was frightened as the frame began and the window does not run out in the
\* frame, or the power pellet the player eats in the frame frightens it
FrightenedAtCollision(i) ==
  \/ ghosts[i].frightened /\ power_timer # 1
  \/ OnPowerPellet /\ ~EatenThrough(i)

\* the ghost i begins the frame in the home cell and takes an eaten step
FoundHome(i) ==
  /\ PlayingTickNow
  /\ ghosts[i].x = 14 /\ ghosts[i].y = 11
  /\ last_step'[i].mode = "eaten"

\* the frame puts the ghosts back: a life lost, a level cleared or a game over
PutBack(i) ==
  /\ state \in {DYING, LEVEL_COMPLETE, GAME_OVER}
  /\ state' \in {READY, INTRO}
  /\ ghosts'[i] = GhostReset(i)

\* C30: no ghost is ever both eaten and frightened; a ghost becomes eaten only
\* in a PLAYING frame that leaves it on the player's cell, having been
\* frightened when the collision was looked at; and an eaten ghost ceases to be
\* eaten only by a step that finds it in the home cell (14, 11) or by the reset
\* of a lost life, a cleared level or a new game.
C30_ModesExclusive ==
  /\ [](\A i \in Ghosts : ~(ghosts[i].eaten /\ ghosts[i].frightened))
  /\ [][\A i \in Ghosts :
          /\ (ghosts'[i].eaten /\ (~ghosts[i].eaten \/ FoundHome(i)))
               => /\ PlayingTickNow
                  /\ Touches(ghosts'[i], pacman')
                  /\ FrightenedAtCollision(i)
          /\ (ghosts[i].eaten /\ ~ghosts'[i].eaten)
               => (FoundHome(i) \/ PutBack(i))]_vars

\* a ghost that began a frame frightened has been captured in it, in a window
\* opened some frames before
C30_CapturedInWindow ==
  /\ state = PLAYING /\ level = 2 /\ play_ticks >= 2
  /\ power_timer > 0 /\ power_timer < 299
  /\ Len(chain) >= 1
  /\ \E i \in Ghosts : ghosts[i].eaten /\ ~ghosts[i].frightened
                       /\ Touches(ghosts[i], pacman)

\* the captured ghost of the head-on state has found the home cell and is in
\* pursuit again
C30_HomeAgain ==
  /\ state = PLAYING /\ level = 2 /\ dots_eaten <= 10 /\ power_timer = 0
  /\ chain = <<200>> /\ play_ticks = 3
  /\ ghosts[4].x = 14 /\ ghosts[4].y = 12
  /\ \A i \in Ghosts : ~ghosts[i].eaten

\* C31: since the last power pellet each ghost has been captured at most once
\* (as many awards as captured ghosts), no frightened ghost is among the
\* captured, no award was above 1600, and the award for the next capture is
\* one of 200, 400, 800, 1600 and 3200; this through lost lives, cleared
\* levels, new games and further power pellets.
C31_ChainBounded ==
  /\ Len(chain) = Cardinality(captured)
  /\ \A i \in Ghosts : ghosts[i].frightened => i \notin captured
  /\ \A k \in 1..Len(chain) : chain[k] <= 1600
  /\ ghost_score \in {200, 400, 800, 1600, 3200}

\* the four ghosts captured in one window, each once, the last for 1600
C31_AllCaptured ==
  /\ state = PLAYING /\ level = 2 /\ play_ticks >= 2 /\ power_timer > 0
  /\ captured = Ghosts /\ ghost_score = 3200
  /\ \A i \in Ghosts : ghosts[i].eaten

\* the second power pellet of a level eaten while a ghost captured in the
\* window of the first is still eaten: a new window with nothing captured
C31_NewWindow ==
  /\ state = PLAYING /\ level = 2 /\ maze[20][1] = EMPTY /\ maze[20][26] = EMPTY
  /\ power_timer = 300 /\ captured = {} /\ ghosts[4].eaten

=============================================================================
